---- MODULE Spec2Model ----
(***************************************************************************)
(* RoomieMatch MCP server (src/mcp/agent.py, src/mcp/rooms_database.py).   *)
(*                                                                         *)
(* The state is the module-level list ROOMS_DB and the last tool response. *)
(* Python str values are sequences of one-character strings, so that       *)
(* strip, lower, capitalize, isdigit, int and the f-string formats are     *)
(* computed character by character.  An Optional argument is <<>> for None *)
(* and <<v>> for a supplied value v.                                       *)
(***************************************************************************)
EXTENDS Integers, Sequences, FiniteSets

\* ------------------------------------------------------------------ bounds

\* uuid4 values drawn in one behaviour (caps the number of created listings)
MaxKeys == 1

\* coroutines the event loop holds at once
NumTasks == 2

\* length of the texts handed to the normalizers
MaxLen == 3

\* ------------------------------------------------------- Python primitives

None == <<>>

Some(v) == <<v>>

UpperChars == <<"A","B","C","D","E","F","G","H","I","J","K","L","M",
                "N","O","P","Q","R","S","T","U","V","W","X","Y","Z">>

LowerChars == <<"a","b","c","d","e","f","g","h","i","j","k","l","m",
                "n","o","p","q","r","s","t","u","v","w","x","y","z">>

DigitChars == <<"0","1","2","3","4","5","6","7","8","9">>

SpaceChars == <<" ", "\t">>

Range(s) == { s[i] : i \in 1..Len(s) }

IndexOf(s, c) == CHOOSE i \in 1..Len(s) : s[i] = c

\* the characters of the model in code point order (what str comparison uses);
\* "EMDASH" stands for the one character U+2014
CodePoints == <<"\t", " ", "!", ",", "-", ".", "/">> \o DigitChars \o <<":">>
              \o UpperChars \o <<"_">> \o LowerChars \o <<"EMDASH">>

Chars == Range(CodePoints)

UpperSet == Range(UpperChars)

LowerSet == Range(LowerChars)

DigitSet == Range(DigitChars)

SpaceSet == Range(SpaceChars)

LowerOf == [c \in Chars |-> IF c \in UpperSet THEN LowerChars[IndexOf(UpperChars, c)] ELSE c]

UpperOf == [c \in Chars |-> IF c \in LowerSet THEN UpperChars[IndexOf(LowerChars, c)] ELSE c]

DigitValue == [c \in DigitSet |-> IndexOf(DigitChars, c) - 1]

OrdOf == [c \in Chars |-> IndexOf(CodePoints, c)]

\* str.lower() on one character
lower_char(c) == LowerOf[c]

\* str.upper() on one character
upper_char(c) == UpperOf[c]

\* str.lower()
lower(t) == [i \in 1..Len(t) |-> lower_char(t[i])]

\* str.capitalize(): first character upper-cased, the rest lower-cased
capitalize(t) == [i \in 1..Len(t) |-> IF i = 1 THEN upper_char(t[i]) ELSE lower_char(t[i])]

RECURSIVE lstrip(_)
lstrip(t) == IF t # <<>> /\ Head(t) \in SpaceSet THEN lstrip(Tail(t)) ELSE t

RECURSIVE rstrip(_)
rstrip(t) == IF t # <<>> /\ t[Len(t)] \in SpaceSet
             THEN rstrip(SubSeq(t, 1, Len(t) - 1)) ELSE t

\* str.strip()
strip(t) == rstrip(lstrip(t))

\* str.isdigit(): non-empty and every character a digit
isdigit(t) == t # <<>> /\ \A i \in 1..Len(t) : t[i] \in DigitSet

\* int(str) of a digit string
RECURSIVE int(_)
int(t) == IF t = <<>> THEN 0
          ELSE 10 * int(SubSeq(t, 1, Len(t) - 1)) + DigitValue[t[Len(t)]]

\* str(n) of a non-negative integer
RECURSIVE str_nat(_)
str_nat(n) == IF n < 10 THEN <<DigitChars[n + 1]>>
              ELSE str_nat(n \div 10) \o <<DigitChars[(n % 10) + 1]>>

\* str(n) of an integer
str_int(n) == IF n < 0 THEN <<"-">> \o str_nat(0 - n) ELSE str_nat(n)

RECURSIVE zfill(_, _)
zfill(t, w) == IF Len(t) >= w THEN t ELSE zfill(<<"0">> \o t, w)

\* the number written without padding
format_03d_unpadded(n) == str_int(n)

\* format(n, "03d") of a non-negative integer
format_03d(n) == zfill(str_nat(n), 3)

\* `not x` for an Optional[str] or Optional[List[str]]: None or empty
falsy_seq(o) == o = None \/ o[1] = <<>>

\* `not x` for an Optional[int]: None or 0
falsy_int(o) == o = None \/ o[1] = 0

\* `x or d`
or_else(o, d) == IF falsy_seq(o) THEN d ELSE o[1]

\* max(iterable, default=d)
max_default(S, d) == IF S = {} THEN d ELSE CHOOSE m \in S : \A x \in S : x <= m

\* ---------------------------------------------------------------- state

VARIABLES
    ROOMS_DB,   \* the module-level list of room dicts
    resp,       \* the outcome of the last tool call (returned text or raised error)
    nuuid,      \* how many uuid4 values have been drawn
    today,      \* date.today() while the server runs
    id_log,     \* history: the seeded ids, then every id add_room handed out, in order
    deleted_keys, \* history: the keys of the listings delete_room removed
    pc,         \* per coroutine: the statement it is at ("idle" when not called)
    frame,      \* per coroutine: its arguments and locals
    loop_owner  \* the coroutine the event loop is running, 0 when none

vars == <<ROOMS_DB, resp, nuuid, today, id_log, deleted_keys, pc, frame, loop_owner>>

conc_vars == <<pc, frame, loop_owner>>

\* ------------------------------------------------------------ datetime.date

is_leap(y) == (y % 4 = 0 /\ y % 100 # 0) \/ y % 400 = 0

days_in_month(y, m) == IF m = 2 THEN (IF is_leap(y) THEN 28 + 1 ELSE 28)
                       ELSE IF m \in {4, 6, 9, 11} THEN 30 ELSE 31

next_day(dt) == IF dt.d < days_in_month(dt.y, dt.m) THEN [dt EXCEPT !.d = dt.d + 1]
                ELSE IF dt.m < 12 THEN [y |-> dt.y, m |-> dt.m + 1, d |-> 1]
                ELSE [y |-> dt.y + 1, m |-> 1, d |-> 1]

\* date + timedelta(days=n)
RECURSIVE plus_days(_, _)
plus_days(dt, n) == IF n = 0 THEN dt ELSE plus_days(next_day(dt), n - 1)

\* date.isoformat(): YYYY-MM-DD
isoformat(dt) == zfill(str_nat(dt.y), 4) \o <<"-">> \o zfill(str_nat(dt.m), 2)
                 \o <<"-">> \o zfill(str_nat(dt.d), 2)

\* timedelta(days=30)
ExpiryDays == 30

\* the day the server is started on (any day after the seeded listings were posted)
StartDate == [y |-> 2025, m |-> 12, d |-> 31]

\* ------------------------------------------------------------ rooms_database

Male == <<"M","a","l","e">>

Female == <<"F","e","m","a","l","e">>

Any == <<"A","n","y">>

GENDERS == {Male, Female, Any}

KeyR005 == <<"t","e","s","t","-","k","e","y","-","f","o","r","-","r","0","0","5">>

KeyR006 == <<"t","e","s","t","-","k","e","y","-","f","o","r","-","r","0","0","6">>

Bengaluru == <<"B","e","n","g","a","l","u","r","u">>

WiFi == <<"W","i","F","i">>

AC == <<"A","C">>

RoomR005 == [
    id |-> <<"R","0","0","5">>,
    management_key |-> KeyR005,
    location |-> [city |-> Bengaluru,
                  area |-> <<"M","a","r","a","t","h","a","h","a","l","l","i">>,
                  pincode |-> <<"5","6","0","0","3","7">>],
    rent |-> 10500, gender_pref |-> Any,
    amenities |-> <<WiFi, <<"G","e","y","s","e","r">> >>,
    description |-> <<"S","p","a","c","i","o","u","s"," ","s","i","n","g","l","e"," ","r","o","o","m"," ","i","n"," ","a"," ","2","B","H","K"," ","a","p","a","r","t","m","e","n","t","."," ","C","l","o","s","e"," ","t","o"," ","I","T"," ","p","a","r","k","s",".">>,
    photo_url |-> Some(<<"h","t","t","p","s",":","/","/","e","x","a","m","p","l","e",".","c","o","m","/","i","m","g","5",".","j","p","g">>),
    date_posted |-> <<"2","0","2","5","-","0","8","-","0","1">>,
    is_active |-> TRUE,
    expires_at |-> <<"2","0","2","5","-","0","8","-","3","1">>,
    spots_available |-> 1 ]

RoomR006 == [
    id |-> <<"R","0","0","6">>,
    management_key |-> KeyR006,
    location |-> [city |-> Bengaluru,
                  area |-> <<"I","n","d","i","r","a","n","a","g","a","r">>,
                  pincode |-> <<"5","6","0","0","3","8">>],
    rent |-> 18000, gender_pref |-> Female,
    amenities |-> <<WiFi, AC,
                    <<"W","a","s","h","i","n","g"," ","M","a","c","h","i","n","e">>,
                    <<"B","a","l","c","o","n","y">> >>,
    description |-> <<"L","u","x","u","r","i","o","u","s"," ","1","B","H","K"," ","n","e","a","r"," ","t","h","e"," ","m","e","t","r","o"," ","s","t","a","t","i","o","n","."," ","F","u","l","l","y"," ","f","u","r","n","i","s","h","e","d",".">>,
    photo_url |-> Some(<<"h","t","t","p","s",":","/","/","e","x","a","m","p","l","e",".","c","o","m","/","i","m","g","6",".","j","p","g">>),
    date_posted |-> <<"2","0","2","5","-","0","8","-","0","2">>,
    is_active |-> TRUE,
    expires_at |-> <<"2","0","2","5","-","0","9","-","0","1">>,
    spots_available |-> 1 ]

InitialRooms == <<RoomR005, RoomR006>>

\* ------------------------------------------------------------- responses

\* What a tool call hands back: the kind of outcome and the values its text shows.
\*   room_id : the id the text shows (created id, or the id the caller passed)
\*   key     : the management key the text shows (<<>> when it shows none)
\*   notes   : the missing fields, or the changes, in the order listed
\*   rooms   : the listings a search shows, in order
Response(op, kind, room_id, key, notes, rooms) ==
    [op |-> op, kind |-> kind, room_id |-> room_id, key |-> key,
     notes |-> notes, rooms |-> rooms]

NoResponse == Response("none", "none", <<>>, <<>>, <<>>, <<>>)

Note(name, value) == [name |-> name, value |-> value]

\* ------------------------------------------------------------- add_room

\* "Slot filling logic": the names of the arguments that are falsy
missing_fields_of(city, area, rent, gender_pref, spots_available, description) ==
       (IF falsy_seq(city) THEN <<"city">> ELSE <<>>)
    \o (IF falsy_seq(area) THEN <<"area">> ELSE <<>>)
    \o (IF falsy_int(rent) THEN <<"rent">> ELSE <<>>)
    \o (IF falsy_seq(gender_pref) THEN <<"gender preference">> ELSE <<>>)
    \o (IF falsy_int(spots_available) THEN <<"spots available">> ELSE <<>>)
    \o (IF falsy_seq(description) THEN <<"a description">> ELSE <<>>)

\* (gender_pref or "").strip().capitalize()
gender_norm(gender_pref) == capitalize(strip(or_else(gender_pref, <<>>)))

\* the numeric suffixes of the ids of the form R<digits>
id_numbers(db) == { int(Tail(db[i].id)) : i \in
                      { j \in 1..Len(db) : /\ db[j].id # <<>>
                                           /\ Head(db[j].id) = "R"
                                           /\ isdigit(Tail(db[j].id)) } }

max_id(db) == max_default(id_numbers(db), 0)

\* the largest suffix taken again, not the one after it
new_id_no_increment(db) == <<"R">> \o format_03d(max_id(db))

new_id(db) == <<"R">> \o format_03d(max_id(db) + 1)

\* str(uuid.uuid4()): the n-th value drawn differs from all drawn before
uuid4(n) == <<"u","u","i","d","-">> \o str_nat(n)

\* the key made from the id, the way the seeded keys are, not drawn
new_room_key_from_id(id, key, day, city, area, rent, gender_n, spots_available, description, pincode, amenities) ==
    [ id |-> id,
      management_key |-> SubSeq(KeyR005, 1, Len(KeyR005) - Len(id)) \o lower(id),
      location |-> [city |-> strip(city[1]), area |-> strip(area[1]),
                    pincode |-> strip(or_else(pincode, <<>>))],
      rent |-> rent[1], gender_pref |-> gender_n,
      amenities |-> or_else(amenities, <<>>),
      description |-> strip(description[1]), photo_url |-> None,
      date_posted |-> isoformat(day), is_active |-> TRUE,
      expires_at |-> isoformat(plus_days(day, ExpiryDays)),
      spots_available |-> spots_available[1] ]

new_room(id, key, day, city, area, rent, gender_n, spots_available, description, pincode, amenities) ==
    [ id |-> id,
      management_key |-> key,
      location |-> [city |-> strip(city[1]), area |-> strip(area[1]),
                    pincode |-> strip(or_else(pincode, <<>>))],
      rent |-> rent[1], gender_pref |-> gender_n,
      amenities |-> or_else(amenities, <<>>),
      description |-> strip(description[1]), photo_url |-> None,
      date_posted |-> isoformat(day), is_active |-> TRUE,
      expires_at |-> isoformat(plus_days(day, ExpiryDays)),
      spots_available |-> spots_available[1] ]

\* what one call does to a store `db` after `n` uuid4 draws on date `day`:
\* the store afterwards and the outcome
add_room_result(db, n, day, city, area, rent, gender_pref, spots_available, description, pincode, amenities) ==
    LET missing_fields == missing_fields_of(city, area, rent, gender_pref,
                                            spots_available, description)
        gender_n == gender_norm(gender_pref)
        management_key == uuid4(n + 1)
        room == new_room(new_id(db), management_key, day, city, area, rent, gender_n,
                         spots_available, description, pincode, amenities)
    IN  IF missing_fields # <<>>
        THEN [db |-> db,
              resp |-> Response("add_room", "MissingFields", <<>>, <<>>,
                                [i \in 1..Len(missing_fields) |->
                                    Note(missing_fields[i], <<>>)], <<>>)]
        ELSE IF gender_n \notin GENDERS
        THEN [db |-> db,
              resp |-> Response("add_room", "InvalidParameter", <<>>, <<>>, <<>>, <<>>)]
        ELSE [db |-> Append(db, room),
              resp |-> Response("add_room", "Created", room.id, management_key,
                                <<>>, <<>>)]

add_room(city, area, rent, gender_pref, spots_available, description, pincode, amenities) ==
    \E out \in { add_room_result(ROOMS_DB, nuuid, today, city, area, rent, gender_pref,
                               spots_available, description, pincode, amenities) } :
        /\ out.resp.kind = "Created" => nuuid < MaxKeys
        /\ ROOMS_DB' = out.db
        /\ resp' = out.resp
        /\ nuuid' = IF out.resp.kind = "Created" THEN nuuid + 1 ELSE nuuid
        /\ id_log' = IF out.resp.kind = "Created" THEN Append(id_log, out.resp.room_id)
                      ELSE id_log
        /\ UNCHANGED deleted_keys

\* ------------------------------------------------- delete_room / edit_room

\* next((r for r in ROOMS_DB if r['id'].lower() == room_id.lower()), None):
\* the position of the first match, 0 for None
find_room(db, room_id) ==
    LET hits == { i \in 1..Len(db) : lower(db[i].id) = lower(room_id) }
    IN  IF hits = {} THEN 0 ELSE CHOOSE i \in hits : \A j \in hits : i <= j

\* the key compared without regard to case
key_matches_nocase(room, management_key) ==
    lower(room.management_key) = lower(management_key)

\* room.get('management_key') != management_key is False
key_matches(room, management_key) == room.management_key = management_key

\* the element flagged inactive and left in the list
list_remove_flag_only(db, x) ==
    LET k == CHOOSE i \in 1..Len(db) : db[i] = x /\ \A j \in 1..(i - 1) : db[j] # x
    IN  [db EXCEPT ![k].is_active = FALSE]

\* list.remove(x): drops the first element equal to x
list_remove(db, x) ==
    LET k == CHOOSE i \in 1..Len(db) : db[i] = x /\ \A j \in 1..(i - 1) : db[j] # x
    IN  SubSeq(db, 1, k - 1) \o SubSeq(db, k + 1, Len(db))

\* the room removed before the key is checked
delete_room_result_remove_first(db, room_id, management_key) ==
    LET i == find_room(db, room_id)
    IN  IF i = 0
        THEN [db |-> db,
              resp |-> Response("delete_room", "NotFound", room_id, <<>>, <<>>, <<>>)]
        ELSE [db |-> list_remove(db, db[i]),
              resp |-> IF db[i].management_key # management_key
                       THEN Response("delete_room", "PermissionDenied", room_id, <<>>,
                                     <<>>, <<>>)
                       ELSE Response("delete_room", "Deleted", room_id, <<>>, <<>>, <<>>)]

delete_room_result(db, room_id, management_key) ==
    LET i == find_room(db, room_id)
    IN  IF i = 0
        THEN [db |-> db,
              resp |-> Response("delete_room", "NotFound", room_id, <<>>, <<>>, <<>>)]
        ELSE IF ~key_matches(db[i], management_key)
        THEN [db |-> db,
              resp |-> Response("delete_room", "PermissionDenied", room_id, <<>>,
                                <<>>, <<>>)]
        ELSE [db |-> list_remove(db, db[i]),
              resp |-> Response("delete_room", "Deleted", room_id, <<>>, <<>>, <<>>)]

delete_room(room_id, management_key) ==
    \E out \in { delete_room_result(ROOMS_DB, room_id, management_key) } :
        /\ ROOMS_DB' = out.db
        /\ resp' = out.resp
        /\ deleted_keys' =
               IF out.resp.kind = "Deleted"
               THEN deleted_keys \cup
                        { ROOMS_DB[find_room(ROOMS_DB, room_id)].management_key }
               ELSE deleted_keys
        /\ UNCHANGED <<nuuid, id_log>>

\* `x is not None`
supplied(o) == o # None

\* the four assignments guarded by truthiness (`if rent:`) instead of `is not None`
edited_room_truthy(room, rent, description, spots_available, amenities) ==
    [room EXCEPT
        !.rent = IF ~falsy_int(rent) THEN rent[1] ELSE @,
        !.description = IF ~falsy_seq(description) THEN description[1] ELSE @,
        !.spots_available = IF ~falsy_int(spots_available) THEN spots_available[1] ELSE @,
        !.amenities = IF ~falsy_seq(amenities) THEN amenities[1] ELSE @]

\* amenities assigned unguarded, as `amenities or []`
edited_room_default_amenities(room, rent, description, spots_available, amenities) ==
    [room EXCEPT
        !.rent = IF rent # None THEN rent[1] ELSE @,
        !.description = IF description # None THEN description[1] ELSE @,
        !.spots_available = IF spots_available # None THEN spots_available[1] ELSE @,
        !.amenities = or_else(amenities, <<>>)]

\* the room dict after the four `if ... is not None` assignments
\* the listing renewed on every edit: expires_at counted again from the day of the edit
edited_room_renewed(room, rent, description, spots_available, amenities) ==
    [room EXCEPT
        !.rent = IF supplied(rent) THEN rent[1] ELSE @,
        !.description = IF supplied(description) THEN description[1] ELSE @,
        !.spots_available = IF supplied(spots_available) THEN spots_available[1] ELSE @,
        !.amenities = IF supplied(amenities) THEN amenities[1] ELSE @,
        !.expires_at = isoformat(plus_days(StartDate, ExpiryDays))]

\* the description assigned to the wrong dict key
edited_room_overwrites_key(room, rent, description, spots_available, amenities) ==
    [room EXCEPT
        !.rent = IF supplied(rent) THEN rent[1] ELSE @,
        !.management_key = IF supplied(description) THEN description[1] ELSE @,
        !.spots_available = IF supplied(spots_available) THEN spots_available[1] ELSE @,
        !.amenities = IF supplied(amenities) THEN amenities[1] ELSE @]

edited_room(room, rent, description, spots_available, amenities) ==
    [room EXCEPT
        !.rent = IF supplied(rent) THEN rent[1] ELSE @,
        !.description = IF supplied(description) THEN description[1] ELSE @,
        !.spots_available = IF supplied(spots_available) THEN spots_available[1] ELSE @,
        !.amenities = IF supplied(amenities) THEN amenities[1] ELSE @]

\* the `changes` list
changes_of(rent, description, spots_available, amenities) ==
       (IF supplied(rent) THEN <<Note("rent", str_int(rent[1]))>> ELSE <<>>)
    \o (IF supplied(description) THEN <<Note("description", <<>>)>> ELSE <<>>)
    \o (IF supplied(spots_available)
        THEN <<Note("spots available", str_int(spots_available[1]))>> ELSE <<>>)
    \o (IF supplied(amenities) THEN <<Note("amenities", <<>>)>> ELSE <<>>)

edit_room_result(db, room_id, management_key, rent, description, spots_available, amenities) ==
    LET i == find_room(db, room_id)
        changes == changes_of(rent, description, spots_available, amenities)
    IN  IF i = 0
        THEN [db |-> db,
              resp |-> Response("edit_room", "NotFound", room_id, <<>>, <<>>, <<>>)]
        ELSE IF ~key_matches(db[i], management_key)
        THEN [db |-> db,
              resp |-> Response("edit_room", "PermissionDenied", room_id, <<>>,
                                <<>>, <<>>)]
        ELSE [db |-> [db EXCEPT ![i] = edited_room(@, rent, description,
                                                   spots_available, amenities)],
              resp |-> IF changes = <<>>
                       THEN Response("edit_room", "NoOp", <<>>, <<>>, <<>>, <<>>)
                       ELSE Response("edit_room", "Updated", room_id, <<>>,
                                     changes, <<>>)]

edit_room(room_id, management_key, rent, description, spots_available, amenities) ==
    \E out \in { edit_room_result(ROOMS_DB, room_id, management_key, rent, description,
                                spots_available, amenities) } :
        /\ ROOMS_DB' = out.db
        /\ resp' = out.resp
        /\ UNCHANGED <<nuuid, id_log, deleted_keys>>

\* ------------------------------------------------------------ normalization

\* \s of the re module
is_space(c) == c \in SpaceSet

\* \w of the re module: letters, digits and the underscore
is_word(c) == c \in UpperSet \cup LowerSet \cup DigitSet \cup {"_"}

\* re.sub(r"\s+", " ", t)
RECURSIVE collapse_spaces(_)
collapse_spaces(t) ==
    IF t = <<>> THEN <<>>
    ELSE IF is_space(Head(t))
         THEN <<" ">> \o collapse_spaces(lstrip(Tail(t)))
         ELSE <<Head(t)>> \o collapse_spaces(Tail(t))

\* re.sub(r"[^\w\s]", "", t)
drop_punctuation(t) == SelectSeq(t, LAMBDA c : is_word(c) \/ is_space(c))

\* re.sub(r"_", " ", t)
underscores_to_spaces(t) == [i \in 1..Len(t) |-> IF t[i] = "_" THEN " " ELSE t[i]]

\* the last two substitutions and the final strip left out
_cleanup_basic_no_final_collapse(text) ==
    IF text = <<>> THEN <<>>
    ELSE underscores_to_spaces(drop_punctuation(collapse_spaces(lower(strip(text)))))

_cleanup_basic(text) ==
    IF text = <<>> THEN <<>>
    ELSE strip(collapse_spaces(underscores_to_spaces(drop_punctuation(
             collapse_spaces(lower(strip(text)))))))

\* cities_and_areas.CITY_SYNONYMS: cleaned alias -> canonical name
CITY_SYNONYMS == { << <<"b","a","n","g","a","l","o","r","e">>,
                      <<"b","e","n","g","a","l","u","r","u">> >>,
                   << <<"b","l","r">>,
                      <<"b","e","n","g","a","l","u","r","u">> >> }

\* cities_and_areas.AREA_SYNONYMS: cleaned alias -> canonical name
AREA_SYNONYMS == { << <<"h","s","r">>,
                      <<"h","s","r"," ","l","a","y","o","u","t">> >> }

\* dict.get(key, default)
dict_get(table, key, default) ==
    IF \E e \in table : e[1] = key THEN (CHOOSE e \in table : e[1] = key)[2] ELSE default

\* the argument is Optional[str]
normalize_city(text) ==
    IF falsy_seq(text) THEN <<>>
    ELSE dict_get(CITY_SYNONYMS, _cleanup_basic(text[1]), _cleanup_basic(text[1]))

normalize_area(text) ==
    IF falsy_seq(text) THEN <<>>
    ELSE dict_get(AREA_SYNONYMS, _cleanup_basic(text[1]), _cleanup_basic(text[1]))

normalize_amenity(a) == _cleanup_basic(a)

\* ------------------------------------------------------------- room_finder

\* ord(c)
ord(c) == OrdOf[c]

\* a < b for str
RECURSIVE str_lt(_, _)
str_lt(a, b) == IF b = <<>> THEN FALSE
                ELSE IF a = <<>> THEN TRUE
                ELSE IF Head(a) = Head(b) THEN str_lt(Tail(a), Tail(b))
                ELSE ord(Head(a)) < ord(Head(b))

\* the sort key (x.get("rent", 0), x.get("date_posted", "")), compared as tuples
key_lt(x, y) == \/ x.rent < y.rent
                \/ x.rent = y.rent /\ str_lt(x.date_posted, y.date_posted)

\* list.sort(key=...): stable, so an element goes after those whose key is not greater
RECURSIVE insert_sorted(_, _)
insert_sorted(sorted, x) ==
    IF sorted = <<>> THEN <<x>>
    ELSE IF key_lt(x, Head(sorted)) THEN <<x>> \o sorted
    ELSE <<Head(sorted)>> \o insert_sorted(Tail(sorted), x)

\* the results left in the order of the store
sort_rooms_as_stored(rooms) == rooms

RECURSIVE sort_rooms(_)
sort_rooms(rooms) ==
    IF rooms = <<>> THEN <<>>
    ELSE insert_sorted(sort_rooms(SubSeq(rooms, 1, Len(rooms) - 1)), rooms[Len(rooms)])

\* the filter trimmed but not capitalized
finder_gender_no_capitalize(gender_pref) ==
    IF falsy_seq(gender_pref) THEN None ELSE Some(strip(gender_pref[1]))

\* gender_n: None when the argument is falsy, else its strip().capitalize()
finder_gender(gender_pref) ==
    IF falsy_seq(gender_pref) THEN None ELSE Some(capitalize(strip(gender_pref[1])))

\* req_amenities
requested_amenities(amenities) ==
    LET given == or_else(amenities, <<>>)
        kept == SelectSeq(given, LAMBDA a : a # <<>> /\ normalize_amenity(a) # <<>>)
    IN  [i \in 1..Len(kept) |-> normalize_amenity(kept[i])]

\* the rent test written with >= : a listing at the cap is skipped
room_matches_below_cap(r, city_n, area_n, pincode_n, max_rent, gender_n, req_amenities) ==
    LET r_amenities == { normalize_amenity(r.amenities[k]) : k \in 1..Len(r.amenities) }
    IN  /\ r.is_active
        /\ ~(city_n # <<>> /\ city_n # normalize_city(Some(r.location.city)))
        /\ ~(area_n # <<>> /\ area_n # normalize_area(Some(r.location.area)))
        /\ ~(pincode_n # <<>> /\ pincode_n # r.location.pincode)
        /\ ~(max_rent # None /\ r.rent >= max_rent[1])
        /\ ~(~falsy_seq(gender_n) /\ r.gender_pref # Any /\ r.gender_pref # gender_n[1])
        /\ ~(req_amenities # <<>> /\
             ~(\A k \in 1..Len(req_amenities) : req_amenities[k] \in r_amenities))

\* the body of the `for r in ROOMS_DB` loop: TRUE when r is appended to results
room_matches(r, city_n, area_n, pincode_n, max_rent, gender_n, req_amenities) ==
    LET r_city == normalize_city(Some(r.location.city))
        r_area == normalize_area(Some(r.location.area))
        r_pincode == r.location.pincode
        r_amenities == { normalize_amenity(r.amenities[k]) : k \in 1..Len(r.amenities) }
    IN  /\ r.is_active
        /\ ~(city_n # <<>> /\ city_n # r_city)
        /\ ~(area_n # <<>> /\ area_n # r_area)
        /\ ~(pincode_n # <<>> /\ pincode_n # r_pincode)
        /\ ~(max_rent # None /\ r.rent > max_rent[1])
        /\ ~(~falsy_seq(gender_n) /\ r.gender_pref # Any /\ r.gender_pref # gender_n[1])
        /\ ~(req_amenities # <<>> /\
             ~(\A k \in 1..Len(req_amenities) : req_amenities[k] \in r_amenities))

\* results after the loop, the sort and results[:limit]
search(db, city, area, pincode, max_rent, gender_pref, amenities, limit) ==
    LET city_n == normalize_city(city)
        area_n == normalize_area(area)
        pincode_n == strip(or_else(pincode, <<>>))
        gender_n == finder_gender(gender_pref)
        req == requested_amenities(amenities)
        results == SelectSeq(db, LAMBDA r :
                       room_matches(r, city_n, area_n, pincode_n, max_rent, gender_n, req))
        sorted == sort_rooms(results)
    IN  SubSeq(sorted, 1, IF limit < Len(sorted) THEN limit ELSE Len(sorted))

\* ", ".join(parts)
RECURSIVE join(_)
join(parts) == IF parts = <<>> THEN <<>>
               ELSE IF Len(parts) = 1 THEN parts[1]
               ELSE parts[1] \o <<",", " ">> \o join(Tail(parts))

\* `s or d` for a str
str_or(s, d) == IF s = <<>> THEN d ELSE s

\* the whole dict shown, management_key included
render_room_dump(r) ==
    [ id |-> r.id, management_key |-> r.management_key,
      description |-> r.description ]

\* the values the text block of one result shows
render_room(r) ==
    [ id |-> r.id,
      city |-> str_or(r.location.city, <<"-">>),
      area |-> str_or(r.location.area, <<"-">>),
      pincode |-> str_or(r.location.pincode, <<"-">>),
      rent |-> str_int(r.rent),
      gender_pref |-> r.gender_pref,
      spots_available |-> str_int(r.spots_available),
      amenities |-> str_or(strip(join(r.amenities)), <<"EMDASH">>),
      date_posted |-> r.date_posted,
      expires_at |-> r.expires_at,
      photo_url |-> or_else(r.photo_url, <<"EMDASH">>),
      description |-> r.description ]

\* the sort applied to the store itself, in place
room_finder_result_sorts_store(db, city, area, pincode, max_rent, gender_pref, amenities, limit) ==
    LET gender_n == finder_gender(gender_pref)
        results == search(db, city, area, pincode, max_rent, gender_pref,
                          amenities, limit)
    IN  [db |-> IF ~falsy_seq(gender_n) /\ gender_n[1] \notin GENDERS
                THEN db ELSE sort_rooms(db),
         resp |-> IF ~falsy_seq(gender_n) /\ gender_n[1] \notin GENDERS
                  THEN Response("room_finder", "InvalidParameter", <<>>, <<>>, <<>>, <<>>)
                  ELSE IF results = <<>>
                  THEN Response("room_finder", "NoResults", <<>>, <<>>, <<>>, <<>>)
                  ELSE Response("room_finder", "Results", <<>>, <<>>, <<>>,
                                [k \in 1..Len(results) |-> render_room(results[k])])]

room_finder_result(db, city, area, pincode, max_rent, gender_pref, amenities, limit) ==
    LET gender_n == finder_gender(gender_pref)
        results == search(db, city, area, pincode, max_rent, gender_pref,
                          amenities, limit)
    IN  [db |-> db,
         resp |-> IF ~falsy_seq(gender_n) /\ gender_n[1] \notin GENDERS
                  THEN Response("room_finder", "InvalidParameter", <<>>, <<>>, <<>>, <<>>)
                  ELSE IF results = <<>>
                  THEN Response("room_finder", "NoResults", <<>>, <<>>, <<>>, <<>>)
                  ELSE Response("room_finder", "Results", <<>>, <<>>, <<>>,
                                [k \in 1..Len(results) |-> render_room(results[k])])]

room_finder(city, area, pincode, max_rent, gender_pref, amenities, limit) ==
    \E out \in { room_finder_result(ROOMS_DB, city, area, pincode, max_rent, gender_pref,
                                  amenities, limit) } :
        /\ ROOMS_DB' = out.db
        /\ resp' = out.resp
        /\ UNCHANGED <<nuuid, id_log, deleted_keys>>

\* ------------------------------------------------------ the tool arguments

Pune == <<"P","u","n","e">>

Baner == <<"B","a","n","e","r">>

\* a seeded id, a lower-case spelling of the other, the first id the seeded
\* store hands out, and an id that is not of the form R<digits>
IdArgs == { RoomR005.id, lower(RoomR006.id), new_id(InitialRooms), <<"X","1">> }

\* every key a listing can have within the bounds, and a key that differs from
\* a stored one in the case of one character
KeyArgs == { KeyR005, KeyR006, capitalize(KeyR005) }
           \cup { uuid4(n) : n \in 1..MaxKeys }

\* the values the tool arguments are drawn from
CityArgs == { None, Some(<<>>), Some(<<" ">> \o Pune) }

AreaArgs == { None, Some(Baner) }

RentArgs == { None, Some(0), Some(-1), Some(7000) }

GenderArgs == { None, Some(<<"m","a","l","e"," ">>), Some(<<"x">>) }

SpotsArgs == { None, Some(0), Some(1) }

DescriptionArgs == { None, Some(<<>>), Some(<<"d","e","s","k"," ">>) }

AmenitiesArgs == { None, Some(<<>>), Some(<<AC>>) }

\* the edits the life cycle performs: nothing supplied, and all four supplied falsy
EditCalls == { <<None, None, None, None>>, <<Some(0), Some(<<>>), Some(0), Some(<<>>)>> }

Tasks == 1..NumTasks

\* a coroutine's frame: the tool called, its arguments, its locals, what it returned
IdleFrame == [op |-> "none", args |-> <<>>, local |-> <<>>, result |-> NoResponse]

Init ==
    /\ ROOMS_DB = InitialRooms
    /\ resp = NoResponse
    /\ nuuid = 0
    /\ today = StartDate
    /\ id_log = [i \in 1..Len(InitialRooms) |-> InitialRooms[i].id]
    /\ deleted_keys = {}
    /\ pc = [t \in Tasks |-> "idle"]
    /\ frame = [t \in Tasks |-> IdleFrame]
    /\ loop_owner = 0

\* ------------------------------------------- Spec: the listing life cycle

AddRoom ==
    \E city \in {None, Some(<<" ">> \o Pune)},
       rent \in {Some(0), Some(-1), Some(7000)},
       gender_pref \in {Some(<<"m","a","l","e"," ">>), Some(<<"x">>)} :
        /\ add_room(city, Some(Baner), rent, gender_pref, Some(1),
                    Some(<<"d","e","s","k"," ">>), None, None)
        /\ UNCHANGED <<today, conc_vars>>

DeleteRoom ==
    \E room_id \in IdArgs, management_key \in KeyArgs :
        /\ delete_room(room_id, management_key)
        /\ UNCHANGED <<today, conc_vars>>

EditRoom ==
    \E room_id \in IdArgs, management_key \in KeyArgs,
       edit \in EditCalls :
        /\ edit_room(room_id, management_key, edit[1], edit[2], edit[3], edit[4])
        /\ UNCHANGED <<today, conc_vars>>

RoomFinder ==
    \E city \in {None, Some(<<"b","l","r","!">>)},
       gender_pref \in {Some(<<" ","m","a","l","e">>), Some(<<"x">>)},
       limit \in {1, 10} :
        /\ room_finder(city, None, None, None, gender_pref, None, limit)
        /\ UNCHANGED <<today, conc_vars>>

Next == AddRoom \/ DeleteRoom \/ EditRoom \/ RoomFinder

Spec == Init /\ [][Next]_vars

\* ------------------------------- SpecConc: coroutines on the event loop
\* Every tool is an `async def` that the server runs on its one event loop.  A
\* coroutine keeps the loop from the statement it starts with until it returns
\* or reaches a statement that suspends it; each task answers one call.

\* the statement is an `await` (the four tools contain none)
suspends_after_newid(stmt) == stmt = "add_newid"

suspends(stmt) == FALSE

\* the loop may run a statement of coroutine t
runnable(t) == loop_owner = t \/ (loop_owner = 0 /\ pc[t] \notin {"idle", "done"})

\* who holds the loop after coroutine t ran `stmt` without returning
loop_after(t, stmt) == IF suspends(stmt) THEN 0 ELSE t

in_flight(t) == pc[t] \notin {"idle", "done"}

\* add_room, "Slot filling logic" and "Validation"
co_add_check(t) ==
    \E rent \in {Some(0), Some(7000)},
       gender_pref \in {Some(<<"m","a","l","e"," ">>), Some(<<"x">>)} :
        LET args == <<Some(Pune), Some(Baner), rent, gender_pref, Some(1),
                      Some(<<"d","e","s","k"," ">>), None, None>>
            missing_fields == missing_fields_of(args[1], args[2], args[3], args[4],
                                                args[5], args[6])
            fail(kind, notes) ==
                /\ pc' = [pc EXCEPT ![t] = "done"]
                /\ frame' = [frame EXCEPT ![t] =
                       [op |-> "add_room", args |-> args, local |-> <<>>,
                        result |-> Response("add_room", kind, <<>>, <<>>, notes, <<>>)]]
                /\ loop_owner' = 0
        IN  /\ pc[t] = "idle"
            /\ loop_owner = 0
            /\ IF missing_fields # <<>>
               THEN fail("MissingFields", [i \in 1..Len(missing_fields) |->
                                              Note(missing_fields[i], <<>>)])
               ELSE IF gender_norm(gender_pref) \notin GENDERS
               THEN fail("InvalidParameter", <<>>)
               ELSE /\ pc' = [pc EXCEPT ![t] = "add_newid"]
                    /\ frame' = [frame EXCEPT ![t] =
                           [op |-> "add_room", args |-> args, local |-> <<>>,
                            result |-> NoResponse]]
                    /\ loop_owner' = loop_after(t, "add_check")
            /\ UNCHANGED <<ROOMS_DB, resp, nuuid, today, id_log, deleted_keys>>

\* add_room, "Generate IDs and Keys"
co_add_newid(t) ==
    /\ pc[t] = "add_newid"
    /\ runnable(t)
    /\ frame' = [frame EXCEPT ![t].local =
           [new_id |-> new_id(ROOMS_DB), management_key |-> uuid4(nuuid + 1),
            today |-> today]]
    /\ nuuid' = nuuid + 1
    /\ pc' = [pc EXCEPT ![t] = "add_append"]
    /\ loop_owner' = loop_after(t, "add_newid")
    /\ UNCHANGED <<ROOMS_DB, resp, today, id_log, deleted_keys>>

\* add_room, new_room = {...}; ROOMS_DB.append(new_room); return
co_add_append(t) ==
    LET f == frame[t]
        room == new_room(f.local.new_id, f.local.management_key, f.local.today,
                         f.args[1], f.args[2], f.args[3], gender_norm(f.args[4]),
                         f.args[5], f.args[6], f.args[7], f.args[8])
    IN  /\ pc[t] = "add_append"
        /\ runnable(t)
        /\ ROOMS_DB' = Append(ROOMS_DB, room)
        /\ id_log' = Append(id_log, room.id)
        /\ UNCHANGED deleted_keys
        /\ frame' = [frame EXCEPT ![t].result =
               Response("add_room", "Created", room.id, room.management_key, <<>>, <<>>)]
        /\ pc' = [pc EXCEPT ![t] = "done"]
        /\ loop_owner' = 0
        /\ UNCHANGED <<resp, nuuid, today>>

\* edit_room, the lookup and the two early returns
co_edit_lookup(t) ==
    \E room_id \in {RoomR005.id, lower(RoomR006.id)}, management_key \in {KeyR005, KeyR006},
       e \in EditCalls :
        LET i == find_room(ROOMS_DB, room_id)
            args == <<room_id, management_key, e[1], e[2], e[3], e[4]>>
            fail(kind) ==
                /\ pc' = [pc EXCEPT ![t] = "done"]
                /\ frame' = [frame EXCEPT ![t] =
                       [op |-> "edit_room", args |-> args, local |-> <<>>,
                        result |-> Response("edit_room", kind, room_id, <<>>, <<>>, <<>>)]]
                /\ loop_owner' = 0
        IN  /\ pc[t] = "idle"
            /\ loop_owner = 0
            /\ IF i = 0 THEN fail("NotFound")
               ELSE IF ~key_matches(ROOMS_DB[i], management_key)
               THEN fail("PermissionDenied")
               ELSE /\ pc' = [pc EXCEPT ![t] = "edit_rent"]
                    /\ frame' = [frame EXCEPT ![t] =
                           [op |-> "edit_room", args |-> args, local |-> i,
                            result |-> NoResponse]]
                    /\ loop_owner' = loop_after(t, "edit_lookup")
            /\ UNCHANGED <<ROOMS_DB, resp, nuuid, today, id_log, deleted_keys>>

\* edit_room, one `if <field> is not None` block: `field` is assigned from
\* argument `a`, then control goes to `next`
co_edit_assign(t, stmt, a, next) ==
    LET f == frame[t]
        i == f.local
        v == f.args[a]
    IN  /\ pc[t] = stmt
        /\ runnable(t)
        /\ ROOMS_DB' =
               IF ~supplied(v) THEN ROOMS_DB
               ELSE IF stmt = "edit_rent" THEN [ROOMS_DB EXCEPT ![i].rent = v[1]]
               ELSE IF stmt = "edit_description"
                    THEN [ROOMS_DB EXCEPT ![i].description = v[1]]
               ELSE IF stmt = "edit_spots"
                    THEN [ROOMS_DB EXCEPT ![i].spots_available = v[1]]
               ELSE [ROOMS_DB EXCEPT ![i].amenities = v[1]]
        /\ pc' = [pc EXCEPT ![t] = next]
        /\ loop_owner' = loop_after(t, stmt)
        /\ UNCHANGED <<resp, nuuid, today, id_log, deleted_keys, frame>>

co_edit_rent(t) == co_edit_assign(t, "edit_rent", 3, "edit_description")

co_edit_description(t) == co_edit_assign(t, "edit_description", 4, "edit_spots")

co_edit_spots(t) == co_edit_assign(t, "edit_spots", 5, "edit_amenities")

co_edit_amenities(t) == co_edit_assign(t, "edit_amenities", 6, "edit_return")

\* edit_room, `if not changes` and the two returns
co_edit_return(t) ==
    LET f == frame[t]
        changes == changes_of(f.args[3], f.args[4], f.args[5], f.args[6])
    IN  /\ pc[t] = "edit_return"
        /\ runnable(t)
        /\ frame' = [frame EXCEPT ![t].result =
               IF changes = <<>>
               THEN Response("edit_room", "NoOp", <<>>, <<>>, <<>>, <<>>)
               ELSE Response("edit_room", "Updated", f.args[1], <<>>, changes, <<>>)]
        /\ pc' = [pc EXCEPT ![t] = "done"]
        /\ loop_owner' = 0
        /\ UNCHANGED <<ROOMS_DB, resp, nuuid, today, id_log, deleted_keys>>

\* delete_room, the lookup and the two early returns
co_delete_lookup(t) ==
    \E room_id \in {RoomR005.id, lower(RoomR006.id)}, management_key \in {KeyR005, KeyR006} :
        LET i == find_room(ROOMS_DB, room_id)
            args == <<room_id, management_key>>
            fail(kind) ==
                /\ pc' = [pc EXCEPT ![t] = "done"]
                /\ frame' = [frame EXCEPT ![t] =
                       [op |-> "delete_room", args |-> args, local |-> <<>>,
                        result |-> Response("delete_room", kind, room_id, <<>>, <<>>, <<>>)]]
                /\ loop_owner' = 0
        IN  /\ pc[t] = "idle"
            /\ loop_owner = 0
            /\ IF i = 0 THEN fail("NotFound")
               ELSE IF ~key_matches(ROOMS_DB[i], management_key)
               THEN fail("PermissionDenied")
               ELSE /\ pc' = [pc EXCEPT ![t] = "delete_remove"]
                    /\ frame' = [frame EXCEPT ![t] =
                           [op |-> "delete_room", args |-> args, local |-> i,
                            result |-> NoResponse]]
                    /\ loop_owner' = loop_after(t, "delete_lookup")
            /\ UNCHANGED <<ROOMS_DB, resp, nuuid, today, id_log, deleted_keys>>

\* delete_room, ROOMS_DB.remove(room); return
co_delete_remove(t) ==
    LET f == frame[t]
    IN  /\ pc[t] = "delete_remove"
        /\ runnable(t)
        /\ ROOMS_DB' = list_remove(ROOMS_DB, ROOMS_DB[f.local])
        /\ frame' = [frame EXCEPT ![t].result =
               Response("delete_room", "Deleted", f.args[1], <<>>, <<>>, <<>>)]
        /\ pc' = [pc EXCEPT ![t] = "done"]
        /\ loop_owner' = 0
        /\ deleted_keys' = deleted_keys \cup { ROOMS_DB[f.local].management_key }
        /\ UNCHANGED <<resp, nuuid, today, id_log>>

\* room_finder, from the filters to results[:limit]
co_finder_scan(t) ==
    \E gender_pref \in {None, Some(<<"x">>)} :
        LET args == <<None, None, None, None, gender_pref, None, 10>>
            gender_n == finder_gender(gender_pref)
        IN  /\ pc[t] = "idle"
            /\ loop_owner = 0
            /\ IF ~falsy_seq(gender_n) /\ gender_n[1] \notin GENDERS
               THEN /\ pc' = [pc EXCEPT ![t] = "done"]
                    /\ frame' = [frame EXCEPT ![t] =
                           [op |-> "room_finder", args |-> args, local |-> <<>>,
                            result |-> Response("room_finder", "InvalidParameter",
                                                <<>>, <<>>, <<>>, <<>>)]]
                    /\ loop_owner' = 0
               ELSE /\ pc' = [pc EXCEPT ![t] = "finder_render"]
                    /\ frame' = [frame EXCEPT ![t] =
                           [op |-> "room_finder", args |-> args,
                            local |-> search(ROOMS_DB, args[1], args[2], args[3], args[4],
                                             args[5], args[6], args[7]),
                            result |-> NoResponse]]
                    /\ loop_owner' = loop_after(t, "finder_scan")
            /\ UNCHANGED <<ROOMS_DB, resp, nuuid, today, id_log, deleted_keys>>

\* room_finder, from `if not results` to the return
co_finder_render(t) ==
    LET results == frame[t].local
    IN  /\ pc[t] = "finder_render"
        /\ runnable(t)
        /\ frame' = [frame EXCEPT ![t].result =
               IF results = <<>>
               THEN Response("room_finder", "NoResults", <<>>, <<>>, <<>>, <<>>)
               ELSE Response("room_finder", "Results", <<>>, <<>>, <<>>,
                             [k \in 1..Len(results) |-> render_room(results[k])])]
        /\ pc' = [pc EXCEPT ![t] = "done"]
        /\ loop_owner' = 0
        /\ UNCHANGED <<ROOMS_DB, resp, nuuid, today, id_log, deleted_keys>>

NextConc ==
    \E t \in Tasks :
        \/ co_add_check(t) \/ co_add_newid(t) \/ co_add_append(t)
        \/ co_edit_lookup(t) \/ co_edit_rent(t) \/ co_edit_description(t)
        \/ co_edit_spots(t) \/ co_edit_amenities(t) \/ co_edit_return(t)
        \/ co_delete_lookup(t) \/ co_delete_remove(t)
        \/ co_finder_scan(t) \/ co_finder_render(t)

SpecConc == Init /\ [][NextConc]_vars

\* --------------------------------- SpecNorm: the normalizers on their own
\* normalize_city, normalize_area and normalize_amenity are pure functions of
\* their argument; a behaviour is one call of one of them on a text, kept in resp.

\* the characters the texts are made of: a lower-case and an upper-case
\* letter, a space, an underscore and a punctuation mark
NormAlphabet == { "a", "B", " ", "_", "!" }

\* every text of at most MaxLen characters, and spellings of the keys and the
\* values of the synonym tables
NormInputs ==
    UNION { [1..n -> NormAlphabet] : n \in 0..MaxLen }
    \cup { e[1] : e \in CITY_SYNONYMS \cup AREA_SYNONYMS }
    \cup { e[2] : e \in CITY_SYNONYMS \cup AREA_SYNONYMS }
    \cup { <<" ","B","L","R","!">>, <<"H","s","r","_","L","a","y","o","u","t">>,
           Bengaluru, <<"B","a","n","g","a","l","o","r","e"," ">> }

\* one call of a normalizer: the function, its argument and what it returned
NormCall(op, text, result) == [op |-> op, text |-> text, result |-> result]

NormalizeCity ==
    /\ resp = NoResponse
    /\ \E text \in NormInputs :
           resp' = NormCall("normalize_city", text, normalize_city(Some(text)))
    /\ UNCHANGED <<ROOMS_DB, nuuid, today, id_log, deleted_keys, conc_vars>>

NormalizeArea ==
    /\ resp = NoResponse
    /\ \E text \in NormInputs :
           resp' = NormCall("normalize_area", text, normalize_area(Some(text)))
    /\ UNCHANGED <<ROOMS_DB, nuuid, today, id_log, deleted_keys, conc_vars>>

NormalizeAmenity ==
    /\ resp = NoResponse
    /\ \E text \in NormInputs :
           resp' = NormCall("normalize_amenity", text, normalize_amenity(text))
    /\ UNCHANGED <<ROOMS_DB, nuuid, today, id_log, deleted_keys, conc_vars>>

NextNorm == NormalizeCity \/ NormalizeArea \/ NormalizeAmenity

SpecNorm == Init /\ [][NextNorm]_vars

\* --------------------------------- SpecAdd: add_room on stores of other ids
\* The id add_room hands out depends on the ids in the store only.  Here the
\* store starts with up to two listings whose ids are taken from IdPool (the
\* ids a store holds after more or fewer listings were created and deleted),
\* and add_room is called on it.

IdPool == { <<"R","0","0","1">>, RoomR005.id, RoomR006.id, <<"R","0","9","9">>,
            <<"R","9","9","9">>, <<"R","1","0","0","0">> }

\* a listing like the first seeded one under another id, with a key of its own
listing_with_id(id) ==
    [RoomR005 EXCEPT !.id = id,
                     !.management_key = SubSeq(KeyR005, 1, Len(KeyR005) - Len(RoomR005.id))
                                        \o lower(id)]

AddStores ==
    { <<>>, InitialRooms }
    \cup { <<listing_with_id(a)>> : a \in IdPool }
    \cup { <<listing_with_id(p[1]), listing_with_id(p[2])>> :
             p \in { q \in IdPool \X IdPool : q[1] # q[2] } }

InitAdd ==
    /\ ROOMS_DB \in AddStores
    /\ resp = NoResponse
    /\ nuuid = 0
    /\ today = StartDate
    /\ id_log = [i \in 1..Len(ROOMS_DB) |-> ROOMS_DB[i].id]
    /\ deleted_keys = {}
    /\ pc = [t \in Tasks |-> "idle"]
    /\ frame = [t \in Tasks |-> IdleFrame]
    /\ loop_owner = 0

NextAdd == AddRoom

SpecAdd == InitAdd /\ [][NextAdd]_vars

\* ------------------------------------------------------------------ claims

\* the numeric suffix of an id of the form R<digits>
suffix(id) == int(Tail(id))

\* C1: the id a successful add_room hands out differs from the id of every
\* listing that was in the store before the call, deleted ones included, and
\* its numeric suffix is greater than that of every id assigned earlier.
C1_IdsNeverReused ==
    \A k \in (Len(InitialRooms) + 1)..Len(id_log) :
        \A j \in 1..(k - 1) :
            /\ id_log[k] # id_log[j]
            /\ suffix(id_log[k]) > suffix(id_log[j])

\* C2: no two listings of the store have the same id, also when the ids are
\* compared without regard to case.
C2_UniqueIds ==
    \A i, j \in 1..Len(ROOMS_DB) :
        i # j => lower(ROOMS_DB[i].id) # lower(ROOMS_DB[j].id)

\* C2 witness: a created listing stands beside both seeded ones
C2_Witness ==
    /\ Len(ROOMS_DB) = Len(InitialRooms) + 1
    /\ resp.kind = "Created"
    /\ ROOMS_DB[Len(ROOMS_DB)].id = resp.room_id

\* C8: every listing of the store has rent >= 0 and spots_available >= 0.
C8_NonNegative ==
    \A i \in 1..Len(ROOMS_DB) :
        ROOMS_DB[i].rent >= 0 /\ ROOMS_DB[i].spots_available >= 0

\* the rooms of the store whose id is room_id up to case
matching(room_id) == { i \in 1..Len(ROOMS_DB) : lower(ROOMS_DB[i].id) = lower(room_id) }

\* C3 for one outcome `out` of a call with `management_key` on an id that
\* names the rooms at the positions `named`
key_required(out, named, management_key) ==
    /\ named = {} =>
           out.resp.kind = "NotFound" /\ out.db = ROOMS_DB
    /\ ( /\ named # {}
         /\ \A i \in named : ROOMS_DB[i].management_key # management_key ) =>
           out.resp.kind = "PermissionDenied" /\ out.db = ROOMS_DB
    /\ out.resp.kind \in {"Deleted", "Updated", "NoOp"} =>
           \E i \in named : ROOMS_DB[i].management_key = management_key

\* C3: edit_room and delete_room change the store only when the supplied key
\* equals, character for character, the key of the listing the id names; any
\* other key for an existing listing gives PermissionDenied, and an id that
\* names no listing gives NotFound whatever the key.
C3_KeyRequired ==
    \A room_id \in IdArgs : \A named \in { matching(room_id) } :
        \A management_key \in KeyArgs :
            /\ \A out \in { delete_room_result(ROOMS_DB, room_id, management_key) } :
                   key_required(out, named, management_key)
            /\ \A e \in EditCalls :
                   \A out \in { edit_room_result(ROOMS_DB, room_id, management_key,
                                                 e[1], e[2], e[3], e[4]) } :
                       key_required(out, named, management_key)

\* C3 witness: a call on an existing listing was refused, the store still whole
C3_Witness ==
    /\ resp.kind = "PermissionDenied"
    /\ matching(resp.room_id) # {}
    /\ ROOMS_DB = InitialRooms

ErrorKinds == {"MissingFields", "InvalidParameter", "NotFound", "PermissionDenied"}

\* the filter values the searches of the claims use
FinderCities == { None, Some(<<"b","l","r","!">>) }

FinderGenders == { None, Some(<<" ","m","a","l","e">>), Some(<<"x">>) }

\* an outcome of an error kind has the store of the state it was computed in
store_kept(out) == out.resp.kind \in ErrorKinds => out.db = ROOMS_DB

\* C4: a call that ends in MissingFields, InvalidParameter, NotFound or
\* PermissionDenied leaves the store exactly as it was.
C4_ErrorsLeaveStore ==
    /\ \A city \in CityArgs, rent \in RentArgs, gender_pref \in GenderArgs :
           \A out \in { add_room_result(ROOMS_DB, nuuid, today, city, Some(Baner), rent,
                                        gender_pref, Some(1),
                                        Some(<<"d","e","s","k"," ">>), None, None) } :
               store_kept(out)
    /\ \A city \in FinderCities, gender_pref \in FinderGenders :
           \A out \in { room_finder_result(ROOMS_DB, city, None, None, None,
                                           gender_pref, None, 10) } :
               store_kept(out)
    /\ \A room_id \in IdArgs, management_key \in KeyArgs :
           /\ \A out \in { delete_room_result(ROOMS_DB, room_id, management_key) } :
                  store_kept(out)
           /\ \A e \in EditCalls :
                  \A out \in { edit_room_result(ROOMS_DB, room_id, management_key,
                                                e[1], e[2], e[3], e[4]) } :
                      store_kept(out)

\* C4 witness: a delete was refused after a listing had been created
C4_Witness ==
    /\ resp.op = "delete_room"
    /\ resp.kind = "PermissionDenied"
    /\ Len(ROOMS_DB) > Len(InitialRooms)

\* the management keys of a store
keys_of(db) == { db[i].management_key : i \in 1..Len(db) }

\* every value a response shows
shown(r) ==
    {r.room_id, r.key}
    \cup { r.notes[k].value : k \in 1..Len(r.notes) }
    \cup UNION { { r.rooms[k][f] : f \in DOMAIN r.rooms[k] } : k \in 1..Len(r.rooms) }

\* an outcome that shows `texts` shows no key of the store it was computed in
no_key_shown(texts) == texts \cap keys_of(ROOMS_DB) = {}

\* an add_room outcome shows the key of the listing it created and no other
own_key_only(out, texts) ==
    /\ no_key_shown(texts)
    /\ texts \cap keys_of(out.db) =
           IF out.resp.kind = "Created"
           THEN { out.db[Len(out.db)].management_key } ELSE {}

\* C6: a stored management key is shown only by the add_room call that created
\* its listing: no response of room_finder, edit_room, delete_room or of another
\* add_room shows the key of any listing.
C6_KeyNeverShown ==
    /\ \A city \in FinderCities, gender_pref \in FinderGenders :
           \A out \in { room_finder_result(ROOMS_DB, city, None, None, None,
                                           gender_pref, None, 10) } :
               no_key_shown(shown(out.resp))
    /\ \A room_id \in IdArgs, management_key \in KeyArgs :
           /\ \A out \in { delete_room_result(ROOMS_DB, room_id, management_key) } :
                  no_key_shown(shown(out.resp))
           /\ \A e \in EditCalls :
                  \A out \in { edit_room_result(ROOMS_DB, room_id, management_key,
                                                e[1], e[2], e[3], e[4]) } :
                      no_key_shown(shown(out.resp))
    /\ \A city \in CityArgs, rent \in RentArgs, gender_pref \in GenderArgs :
           \A out \in { add_room_result(ROOMS_DB, nuuid, today, city, Some(Baner), rent,
                                        gender_pref, Some(1),
                                        Some(<<"d","e","s","k"," ">>), None, None) } :
               \A texts \in { shown(out.resp) } : own_key_only(out, texts)

\* C6 witness: a search showed a listing that add_room created
C6_Witness ==
    /\ resp.kind = "Results"
    /\ \E k \in 1..Len(resp.rooms), i \in 1..Len(ROOMS_DB) :
           /\ resp.rooms[k].id = ROOMS_DB[i].id
           /\ ROOMS_DB[i].management_key = uuid4(1)

\* the labels add_room uses for the required arguments that are None or empty
absent_fields(city, area, rent, gender_pref, spots_available, description) ==
       (IF city = None \/ city = Some(<<>>) THEN {"city"} ELSE {})
    \cup (IF area = None \/ area = Some(<<>>) THEN {"area"} ELSE {})
    \cup (IF rent = None THEN {"rent"} ELSE {})
    \cup (IF gender_pref = None \/ gender_pref = Some(<<>>)
          THEN {"gender preference"} ELSE {})
    \cup (IF spots_available = None THEN {"spots available"} ELSE {})
    \cup (IF description = None \/ description = Some(<<>>)
          THEN {"a description"} ELSE {})

\* C7: add_room answers MissingFields exactly when one of the six required
\* arguments is None or empty, and names exactly those; 0 for rent or
\* spots_available counts as supplied.
C7_MissingFieldsExact ==
    \A city \in CityArgs, area \in AreaArgs, rent \in RentArgs,
       gender_pref \in GenderArgs, spots_available \in SpotsArgs,
       description \in DescriptionArgs :
        LET out == add_room_result(ROOMS_DB, nuuid, today, city, area, rent, gender_pref,
                                   spots_available, description, None, None)
            absent == absent_fields(city, area, rent, gender_pref, spots_available,
                                    description)
        IN  /\ out.resp.kind = "MissingFields" <=> absent # {}
            /\ out.resp.kind = "MissingFields" =>
                   { out.resp.notes[k].name : k \in 1..Len(out.resp.notes) } = absent

\* the labels edit_room uses for the supplied arguments
given_fields(rent, description, spots_available, amenities) ==
       (IF rent # None THEN {"rent"} ELSE {})
    \cup (IF description # None THEN {"description"} ELSE {})
    \cup (IF spots_available # None THEN {"spots available"} ELSE {})
    \cup (IF amenities # None THEN {"amenities"} ELSE {})

\* C9 for the outcome `out` of an authorized edit of the room at position i
edit_applied(out, i, rent, description, spots_available, amenities, given) ==
    /\ out.resp.kind = "Updated"
    /\ { out.resp.notes[k].name : k \in 1..Len(out.resp.notes) } = given
    /\ Len(out.resp.notes) = Cardinality(given)
    /\ rent # None => out.db[i].rent = rent[1]
    /\ description # None => out.db[i].description = description[1]
    /\ spots_available # None => out.db[i].spots_available = spots_available[1]
    /\ amenities # None => out.db[i].amenities = amenities[1]

\* C9: an authorized edit_room stores every supplied value, 0 and empty ones
\* too, and reports exactly the supplied fields as changed.
C9_EditApplies ==
    \A i \in 1..Len(ROOMS_DB) :
        \A rent \in {None, Some(0), Some(-1)}, description \in {None, Some(<<>>)},
           spots_available \in {None, Some(0)}, amenities \in AmenitiesArgs :
            \A given \in { given_fields(rent, description, spots_available, amenities) } :
                given # {} =>
                    \A out \in { edit_room_result(ROOMS_DB, lower(ROOMS_DB[i].id),
                                                  ROOMS_DB[i].management_key, rent,
                                                  description, spots_available,
                                                  amenities) } :
                        edit_applied(out, i, rent, description, spots_available,
                                     amenities, given)

\* C9 witness: an edit that supplied 0, "", 0 and [] was applied and reported
C9_Witness ==
    /\ resp.kind = "Updated"
    /\ Len(resp.notes) = 4
    /\ \E i \in matching(resp.room_id) :
           /\ ROOMS_DB[i].rent = 0
           /\ ROOMS_DB[i].description = <<>>
           /\ ROOMS_DB[i].spots_available = 0
           /\ ROOMS_DB[i].amenities = <<>>

\* C10: an authorized edit_room that supplies none of the four fields answers
\* NoOp and leaves the whole store as it was.
C10_EmptyEditIsNoOp ==
    \A i \in 1..Len(ROOMS_DB) :
        \A room_id \in {ROOMS_DB[i].id, lower(ROOMS_DB[i].id)} :
            \A out \in { edit_room_result(ROOMS_DB, room_id, ROOMS_DB[i].management_key,
                                          None, None, None, None) } :
                out.resp.kind = "NoOp" /\ out.db = ROOMS_DB

\* C10 witness: an empty edit was answered on a store that still has amenities
C10_Witness ==
    /\ resp.op = "edit_room"
    /\ resp.kind = "NoOp"
    /\ \E i \in 1..Len(ROOMS_DB) : ROOMS_DB[i].amenities # <<>>

\* C5: the tools exclude one another: while one coroutine is between its first
\* statement and its return no other is, so two add_room calls never put the
\* same id into the store and a search never sees an edit applied in part.
C5_Atomic ==
    /\ \A t1, t2 \in Tasks : t1 # t2 => ~(in_flight(t1) /\ in_flight(t2))
    /\ \A i, j \in 1..Len(ROOMS_DB) : i # j => ROOMS_DB[i].id # ROOMS_DB[j].id
    /\ \A t \in Tasks :
           frame[t].op = "room_finder" /\ frame[t].result.kind # "InvalidParameter" =>
               \A k \in 1..Len(frame[t].local) :
                   (frame[t].local[k].rent = 0) <=> (frame[t].local[k].spots_available = 0)

\* C5 witness: two add_room calls have both returned a created id, and a
\* search has returned after an edit wrote 0 into a listing
C5_Witness ==
    \/ \E t1, t2 \in Tasks :
           /\ t1 # t2
           /\ pc[t1] = "done" /\ frame[t1].result.kind = "Created"
           /\ pc[t2] = "done" /\ frame[t2].result.kind = "Created"
    \/ \E t1, t2 \in Tasks :
           /\ pc[t1] = "done" /\ frame[t1].result.kind = "Updated"
           /\ pc[t2] = "done" /\ frame[t2].result.kind = "Results"
           /\ \E k \in 1..Len(frame[t2].local) : frame[t2].local[k].rent = 0

FilterCalls ==
    { <<None, None, None, None, None>>,
      <<Some(<<"b","l","r","!">>), None, None, Some(15000), None>>,
      <<Some(<<" ","p","u","n","e">>), Some(<<"B","A","N","E","R"," ">>), None, None, None>>,
      <<Some(<<"!">>), None, Some(<<" ","5","6","0","0","3","7"," ">>), None, None>>,
      <<None, None, Some(<<" ">>), Some(0), None>>,
      <<None, None, None, None, Some(<< <<"w","i","f","i">> >>)>>,
      <<None, None, None, None, Some(<< <<"A","C"," ">>, <<"W","I","F","I">> >>)>>,
      <<None, None, None, None, Some(<< <<"!">>, <<"g","e","y","s","e","r">> >>)>>,
      <<None, Some(<<"i","n","d","i","r","a","n","a","g","a","r">>), None, None,
        Some(<< <<"b","a","l","c","o","n","y">>,
                <<"w","a","s","h","i","n","g","_","m","a","c","h","i","n","e">> >>)>>,
      <<Some(<<"M","u","m","b","a","i">>), None, None, None, None>>,
      <<None, None, None, Some(RoomR005.rent), None>>,
      <<None, None, None, Some(-1), None>> }

\* the largest value the `limit` argument may take (Field(ge=1, le=50))
LimitMax == 50

\* listing r satisfies every supplied filter
satisfies_filters(r, f) ==
    LET city_f == normalize_city(f[1])
        area_f == normalize_area(f[2])
        pincode_f == strip(or_else(f[3], <<>>))
        wanted == or_else(f[5], <<>>)
    IN  /\ r.is_active
        /\ city_f = <<>> \/ city_f = normalize_city(Some(r.location.city))
        /\ area_f = <<>> \/ area_f = normalize_area(Some(r.location.area))
        /\ pincode_f = <<>> \/ pincode_f = r.location.pincode
        /\ f[4] = None \/ r.rent <= f[4][1]
        /\ \A k \in 1..Len(wanted) :
               \/ normalize_amenity(wanted[k]) = <<>>
               \/ \E j \in 1..Len(r.amenities) :
                      normalize_amenity(r.amenities[j]) = normalize_amenity(wanted[k])

\* C11: without a gender filter and with a limit no store exceeds, room_finder
\* returns exactly the active listings that satisfy all supplied filters
\* (city and area compared normalized, the trimmed pincode compared as stored,
\* rent <= max_rent, every requested amenity among the listing's, all up to
\* normalization; a filter that cleans to nothing excludes nothing), and when
\* no listing does it answers NoResults, not an error.
C11_FiltersConjunctive ==
    \A f \in FilterCalls :
        \A out \in { room_finder_result(ROOMS_DB, f[1], f[2], f[3], f[4], None, f[5],
                                        LimitMax) } :
            LET wanted == { i \in 1..Len(ROOMS_DB) : satisfies_filters(ROOMS_DB[i], f) }
            IN  /\ out.resp.kind = (IF wanted = {} THEN "NoResults" ELSE "Results")
                /\ { out.resp.rooms[k].id : k \in 1..Len(out.resp.rooms) }
                       = { ROOMS_DB[i].id : i \in wanted }
                /\ Len(out.resp.rooms) = Cardinality(wanted)

\* C11 witness: a search with a city filter returned listings and left out a
\* created listing of another city that the gender filter lets through
C11_Witness ==
    /\ resp.op = "room_finder"
    /\ resp.kind = "Results"
    /\ \E i \in 1..Len(ROOMS_DB) :
           /\ ROOMS_DB[i].location.city = Pune
           /\ ROOMS_DB[i].gender_pref = Male
           /\ \A k \in 1..Len(resp.rooms) : resp.rooms[k].id # ROOMS_DB[i].id

\* gender filters as a caller may write them, each with the preference it
\* stands for (<<>> for one that is blank after the trim)
GenderFilters ==
    { << <<" ","m","a","l","e">>, Male >>,
      << <<"F","E","M","A","L","E"," ">>, Female >>,
      << <<"a","n","y">>, Any >>,
      << <<"m","A","L","E">>, Male >>,
      << <<" ">>, <<>> >> }

\* filter values that are not blank and stand for none of the three preferences
BadGenderFilters == { <<"x">>, <<"M","a","l","e","s">>, <<"f","e"," ","m","a","l","e">> }

\* the ids a response shows
shown_ids(r) == { r.rooms[k].id : k \in 1..Len(r.rooms) }

\* the ids of the stored listings whose preference is one of prefs
ids_with_pref(prefs) ==
    { ROOMS_DB[i].id : i \in { j \in 1..Len(ROOMS_DB) : ROOMS_DB[j].gender_pref \in prefs } }

\* C12: with only a gender filter, room_finder returns exactly the listings
\* whose stored preference is Any or is the filter value trimmed and
\* capitalized, so a listing with Any is returned for Male, Female and Any and
\* a listing with Male is left out for Female; a filter that is blank after
\* the trim filters nothing; a filter that is not blank and is none of Male,
\* Female, Any is rejected with InvalidParameter.
C12_GenderFilter ==
    /\ \A g \in GenderFilters :
           \A out \in { room_finder_result(ROOMS_DB, None, None, None, None, Some(g[1]),
                                           None, LimitMax) } :
               /\ out.resp.kind \in {"Results", "NoResults"}
               /\ shown_ids(out.resp) =
                      IF g[2] = <<>> THEN ids_with_pref(GENDERS)
                      ELSE ids_with_pref({Any, g[2]})
               /\ ids_with_pref({Any}) \subseteq shown_ids(out.resp)
               /\ g[2] = Female => shown_ids(out.resp) \cap ids_with_pref({Male}) = {}
    /\ \A g \in BadGenderFilters :
           room_finder_result(ROOMS_DB, None, None, None, None, Some(g), None,
                              LimitMax).resp.kind = "InvalidParameter"

\* C12 witness: a search with a gender filter showed a listing whose
\* preference is Any and left out a stored listing whose preference is Female
C12_Witness ==
    /\ resp.op = "room_finder"
    /\ resp.kind = "Results"
    /\ \E k \in 1..Len(resp.rooms) : resp.rooms[k].gender_pref = Any
    /\ ids_with_pref({Female}) # {}
    /\ ids_with_pref({Female}) \cap shown_ids(resp) = {}

\* the values of `limit` searched with: one listing, two, and the largest allowed
LimitArgs == { 1, 2, LimitMax }

\* the sort key of x is not after the sort key of y: rent first, then date_posted
key_le(x, y) ==
    \/ x.rent < y.rent
    \/ x.rent = y.rent /\ ~str_lt(y.date_posted, x.date_posted)

\* C13: what room_finder returns is in ascending order of (rent, date_posted),
\* has min(limit, number of matching listings) elements, and no matching
\* listing left out comes before a returned one in that order; the text shows
\* the listings in that order; without filters the matching listings are all
\* the active ones.
C13_SortedAndCapped ==
    \A limit \in LimitArgs :
        \A f \in { <<None, None>>, <<Some(Bengaluru), None>>,
                   <<None, Some(<< <<"w","i","f","i">> >>)>> } :
            \A results \in { search(ROOMS_DB, f[1], None, None, None, None, f[2], limit) } :
                LET matching_rooms ==
                        { i \in 1..Len(ROOMS_DB) :
                            satisfies_filters(ROOMS_DB[i], <<f[1], None, None, None, f[2]>>) }
                    returned == { results[k] : k \in 1..Len(results) }
                    out == room_finder_result(ROOMS_DB, f[1], None, None, None, None,
                                              f[2], limit)
                IN  /\ Len(results) = IF Cardinality(matching_rooms) < limit
                                      THEN Cardinality(matching_rooms) ELSE limit
                    /\ \A k \in 1..(Len(results) - 1) : key_le(results[k], results[k + 1])
                    /\ returned \subseteq { ROOMS_DB[i] : i \in matching_rooms }
                    /\ \A i \in matching_rooms :
                           ROOMS_DB[i] \notin returned =>
                               \A k \in 1..Len(results) : key_le(results[k], ROOMS_DB[i])
                    /\ Len(out.resp.rooms) = Len(results)
                    /\ \A k \in 1..Len(results) : out.resp.rooms[k].id = results[k].id
                    /\ f = <<None, None>> =>
                           Cardinality(matching_rooms) =
                               Cardinality({ i \in 1..Len(ROOMS_DB) : ROOMS_DB[i].is_active })

\* C13 witness: a search showed two listings, the one stored last first
C13_Witness ==
    /\ resp.op = "room_finder"
    /\ resp.kind = "Results"
    /\ Len(resp.rooms) = 2
    /\ Len(ROOMS_DB) > 2
    /\ resp.rooms[1].id = ROOMS_DB[Len(ROOMS_DB)].id

\* the edits a frame is checked for: one field, two fields, all four
FrameEdits ==
    { <<Some(0), None, None, None>>,
      <<None, Some(<<"n","e","w">>), None, Some(<<AC>>)>>,
      <<None, None, Some(2), None>>,
      <<Some(-1), Some(<<>>), Some(0), Some(<<>>)>> }

\* the fields edit_room has no argument for
kept_fields(r) ==
    <<r.id, r.management_key, r.location, r.gender_pref, r.date_posted, r.expires_at,
      r.is_active, r.photo_url>>

\* C15: a successful edit_room changes only the supplied fields among rent,
\* description, spots_available and amenities of the listing it names: that
\* listing's id, key, location, gender preference, date_posted, expires_at and
\* is_active, its fields not supplied, every other listing and the number of
\* listings stay as they were.
C15_EditFrame ==
    \A i \in 1..Len(ROOMS_DB) :
        \A e \in FrameEdits :
            \A out \in { edit_room_result(ROOMS_DB, lower(ROOMS_DB[i].id),
                                          ROOMS_DB[i].management_key,
                                          e[1], e[2], e[3], e[4]) } :
                /\ out.resp.kind = "Updated"
                /\ Len(out.db) = Len(ROOMS_DB)
                /\ \A j \in 1..Len(ROOMS_DB) : j # i => out.db[j] = ROOMS_DB[j]
                /\ kept_fields(out.db[i]) = kept_fields(ROOMS_DB[i])
                /\ e[1] = None => out.db[i].rent = ROOMS_DB[i].rent
                /\ e[2] = None => out.db[i].description = ROOMS_DB[i].description
                /\ e[3] = None => out.db[i].spots_available = ROOMS_DB[i].spots_available
                /\ e[4] = None => out.db[i].amenities = ROOMS_DB[i].amenities

\* C15 witness: the first seeded listing was edited to rent 0 and kept its
\* key, location, dates and gender preference, beside the second, untouched
C15_Witness ==
    /\ resp.op = "edit_room"
    /\ resp.kind = "Updated"
    /\ lower(resp.room_id) = lower(RoomR005.id)
    /\ Len(ROOMS_DB) >= 2
    /\ ROOMS_DB[1].rent = 0
    /\ ROOMS_DB[1].rent # RoomR005.rent
    /\ kept_fields(ROOMS_DB[1]) = kept_fields(RoomR005)
    /\ ROOMS_DB[2] = RoomR006

\* the store without its i-th listing
without(db, i) == [j \in 1..(Len(db) - 1) |-> IF j < i THEN db[j] ELSE db[j + 1]]

\* no call with the id `room_id` finds a listing in `db`: not a search, not an
\* edit_room, not a delete_room, whatever the key
gone_from(db, room_id) ==
    /\ \A j \in 1..Len(db) : lower(db[j].id) # lower(room_id)
    /\ \A r \in { room_finder_result(db, None, None, None, None, None, None, LimitMax) } :
           \A k \in 1..Len(r.resp.rooms) : lower(r.resp.rooms[k].id) # lower(room_id)
    /\ \A management_key \in KeyArgs :
           /\ delete_room_result(db, room_id, management_key).resp.kind = "NotFound"
           /\ edit_room_result(db, room_id, management_key, Some(1), None, None,
                               None).resp.kind = "NotFound"

\* C16: a successful delete_room takes out of the store the one listing whose
\* id is the id passed, up to case, and leaves the others as they were and in
\* their order; the listing is then not in the store at all, no search shows
\* it, and edit_room and delete_room on its id answer NotFound.
C16_DeleteRemovesOne ==
    \A i \in 1..Len(ROOMS_DB) :
        \A room_id \in { ROOMS_DB[i].id, lower(ROOMS_DB[i].id) } :
            \A out \in { delete_room_result(ROOMS_DB, room_id,
                                            ROOMS_DB[i].management_key) } :
                /\ out.resp.kind = "Deleted"
                /\ out.db = without(ROOMS_DB, i)
                /\ gone_from(out.db, room_id)

\* C16 witness: the second seeded listing was deleted and the first is still
\* stored as seeded
C16_Witness ==
    /\ resp.op = "delete_room"
    /\ resp.kind = "Deleted"
    /\ lower(resp.room_id) = lower(RoomR006.id)
    /\ matching(RoomR006.id) = {}
    /\ Len(ROOMS_DB) >= 1
    /\ ROOMS_DB[1] = RoomR005

\* how many digits the id of suffix n shows: at least three
id_width(n) == IF n < 1000 THEN 3 ELSE IF n < 10000 THEN 4 ELSE 5

\* the suffixes of the ids of the store
store_suffixes == { suffix(ROOMS_DB[i].id) : i \in 1..Len(ROOMS_DB) }

\* C17: a successful add_room returns the store with one listing appended and
\* the earlier ones as they were; the id of the new listing is R followed by
\* 1 + the largest numeric suffix in the store (1 for an empty store), written
\* with at least three digits: R001 for an empty store, R1000 after R999.
C17_AppendsNextId ==
    \A rent \in {Some(7000), Some(-1)} :
        \A out \in { add_room_result(ROOMS_DB, nuuid, today, Some(<<" ">> \o Pune),
                                     Some(Baner), rent,
                                     Some(<<"m","a","l","e"," ">>), Some(1),
                                     Some(<<"d","e","s","k"," ">>), None, None) } :
            LET n == 1 + (IF ROOMS_DB = <<>> THEN 0
                          ELSE CHOOSE m \in store_suffixes : \A k \in store_suffixes : k <= m)
                id == out.db[Len(out.db)].id
            IN  /\ out.resp.kind = "Created"
                /\ Len(out.db) = Len(ROOMS_DB) + 1
                /\ SubSeq(out.db, 1, Len(ROOMS_DB)) = ROOMS_DB
                /\ out.resp.room_id = id
                /\ Head(id) = "R"
                /\ isdigit(Tail(id))
                /\ suffix(id) = n
                /\ Len(Tail(id)) = id_width(n)
                /\ ROOMS_DB = <<>> => id = <<"R","0","0","1">>
                /\ n = 1000 => id = <<"R","1","0","0","0">>

\* C17 witness: add_room on a store whose largest id was R999 created R1000
C17_Witness ==
    /\ resp.op = "add_room"
    /\ resp.kind = "Created"
    /\ resp.room_id = <<"R","1","0","0","0">>
    /\ Len(ROOMS_DB) >= 2
    /\ ROOMS_DB[Len(ROOMS_DB)].id = resp.room_id
    /\ \E i \in 1..(Len(ROOMS_DB) - 1) : ROOMS_DB[i].id = <<"R","9","9","9">>

\* searches of every kind of outcome: <<city, max_rent, gender_pref, amenities, limit>>
ReadCalls ==
    { <<None, None, None, None, LimitMax>>,
      <<Some(<<"b","l","r","!">>), Some(15000), None, None, 1>>,
      <<None, None, Some(<<" ","m","a","l","e">>), Some(<< <<"w","i","f","i">> >>), 2>>,
      <<Some(<<"M","u","m","b","a","i">>), None, None, None, LimitMax>>,
      <<None, None, Some(<<"x">>), None, 1>> }

keys_distinct ==
    \A i, j \in 1..Len(ROOMS_DB) :
        i # j => ROOMS_DB[i].management_key # ROOMS_DB[j].management_key

\* a listing that is in the store before and after a step has the same key
keys_kept ==
    \A i \in 1..Len(ROOMS_DB) : \A j \in 1..Len(ROOMS_DB') :
        ROOMS_DB[i].id = ROOMS_DB'[j].id =>
            ROOMS_DB[i].management_key = ROOMS_DB'[j].management_key

\* C19: in every reachable state the keys of the stored listings are pairwise
\* different, and no call changes the key of a listing that stays in the store.
C19_KeysUniqueImmutable == [](keys_distinct) /\ [][keys_kept]_vars

\* C19 witness: after a listing was created and a seeded one edited, the
\* three listings have the two seeded keys and the created one
C19_Witness ==
    /\ resp.kind = "Updated"
    /\ Len(ROOMS_DB) = 3
    /\ ROOMS_DB[1].rent = 0
    /\ ROOMS_DB[1].management_key = KeyR005
    /\ ROOMS_DB[2].management_key = KeyR006
    /\ ROOMS_DB[3].management_key = uuid4(1)

\* C20: the key of a deleted listing authorizes nothing afterwards: edit_room
\* and delete_room called with it, on the deleted listing's id or any other,
\* leave the store as it is, also after add_room has handed the id out again.
C20_DeletedKeyIsDead ==
    \A management_key \in deleted_keys :
        \A room_id \in IdArgs \cup { ROOMS_DB[i].id : i \in 1..Len(ROOMS_DB) } :
            /\ \A out \in { delete_room_result(ROOMS_DB, room_id, management_key) } :
                   out.db = ROOMS_DB /\ out.resp.kind \in {"NotFound", "PermissionDenied"}
            /\ \A e \in EditCalls \cup FrameEdits :
                   \A out \in { edit_room_result(ROOMS_DB, room_id, management_key,
                                                 e[1], e[2], e[3], e[4]) } :
                       out.db = ROOMS_DB
                       /\ out.resp.kind \in {"NotFound", "PermissionDenied"}

\* C20 witness: the second seeded listing was deleted, add_room handed its id
\* out again, and a call with the old key was then refused
C20_Witness ==
    /\ KeyR006 \in deleted_keys
    /\ \E i \in 1..Len(ROOMS_DB) :
           ROOMS_DB[i].id = RoomR006.id /\ ROOMS_DB[i].management_key # KeyR006
    /\ resp.kind = "PermissionDenied"
    /\ lower(resp.room_id) = lower(RoomR006.id)

====
